---- MODULE Spec2Model ----
(***************************************************************************)
(* Address book assistant (task4_cli_object_v03_fullversion.py and the     *)
(* model classes of task4_cli_object_v02.py).                              *)
(*                                                                         *)
(* Strings are sequences of one-character strings.  Phone and Record       *)
(* objects live in a heap keyed by object identity, so that aliasing and   *)
(* in-place mutation are visible.  AddressBook.data is an insertion        *)
(* ordered dictionary, modelled as a sequence of (key, rec) entries.       *)
(***************************************************************************)
EXTENDS Integers, Sequences, FiniteSets, TLC

\* ------------------------------------------------------------------ bounds
\* largest number of Phone objects alive at the same time
MaxPhones == 2
\* largest number of Record objects alive at the same time
MaxRecs == 2

PhoneIds == 1..MaxPhones
RecIds == 1..MaxRecs

\* Python's None, as an object reference
None == 0

\* ------------------------------------------------------------- characters
\* the characters str.isdigit accepts, among those the inputs below are made of
DigitChars == {"0", "1", "2", "3", "4", "5", "6", "7", "8", "9"}
SpaceChars == {" ", "\t"}
UpperChars == <<"A", "B", "C", "D", "E", "F", "G", "H", "I", "J", "K", "L", "M",
                "N", "O", "P", "Q", "R", "S", "T", "U", "V", "W", "X", "Y", "Z">>
LowerChars == <<"a", "b", "c", "d", "e", "f", "g", "h", "i", "j", "k", "l", "m",
                "n", "o", "p", "q", "r", "s", "t", "u", "v", "w", "x", "y", "z">>

\* str.isdigit on one character
isdigit(ch) == ch \in DigitChars

\* str.isspace on one character
isspace(ch) == ch \in SpaceChars

\* str.lower on one character
lower_ch(ch) ==
    IF \E i \in 1..Len(UpperChars) : UpperChars[i] = ch
    THEN LowerChars[CHOOSE i \in 1..Len(UpperChars) : UpperChars[i] = ch]
    ELSE ch

\* str.lower
lower(s) == [i \in 1..Len(s) |-> lower_ch(s[i])]

RECURSIVE lstrip(_)
lstrip(s) == IF s # <<>> /\ isspace(Head(s)) THEN lstrip(Tail(s)) ELSE s

RECURSIVE rstrip(_)
rstrip(s) ==
    IF s # <<>> /\ isspace(s[Len(s)]) THEN rstrip(SubSeq(s, 1, Len(s) - 1)) ELSE s

\* str.strip
strip(s) == rstrip(lstrip(s))

\* the first whitespace-free run of s, s not starting with whitespace
RECURSIVE first_word(_)
first_word(s) ==
    IF s = <<>> \/ isspace(Head(s)) THEN <<>>
    ELSE <<Head(s)>> \o first_word(Tail(s))

\* str.split() with no separator: the whitespace-free runs, in order
RECURSIVE split(_)
split(s) ==
    LET t == lstrip(s)
        w == first_word(t)
    IN IF t = <<>> THEN <<>>
       ELSE <<w>> \o split(SubSeq(t, Len(w) + 1, Len(t)))

\* sep.join(parts)
RECURSIVE join(_, _)
join(sep, parts) ==
    IF parts = <<>> THEN <<>>
    ELSE IF Len(parts) = 1 THEN parts[1]
    ELSE parts[1] \o sep \o join(sep, Tail(parts))

Range(f) == {f[i] : i \in DOMAIN f}

\* ------------------------------------------------------------- exceptions
\* An exception is its type and its message (a literal with a computed part).
NoExc == [type |-> "", fmt |-> "", arg |-> <<>>]
Exc(type, fmt, arg) == [type |-> type, fmt |-> fmt, arg |-> arg]

\* What a call gives back: the exception it raised (NoExc when it returned),
\* the value it returned, and the heap it leaves behind.
Ret(val, h) == [exc |-> NoExc, val |-> val, h |-> h]
Raise(e, h) == [exc |-> e, val |-> None, h |-> h]
Raised(o) == o.exc.type # ""

\* ------------------------------------------------------------------- heap
\* smallest identity no live object of the given kind carries
FreshId(live) == CHOOSE i \in 1..(Cardinality(live) + 1) :
                    i \notin live /\ \A j \in 1..(i - 1) : j \in live

EmptyHeap == [phones |-> <<>>, records |-> <<>>, data |-> <<>>]

\* ------------------------------------------------------------------ Phone
PHONE_LEN == 10

\* (variant: the length is never checked)
PhoneNormalizeNoCheck(raw) == [exc |-> NoExc, val |-> SelectSeq(raw, isdigit)]

\* Phone._normalize_and_validate: the digits of raw, or ValueError
Phone_normalize_and_validate(raw) ==
    LET digits == SelectSeq(raw, isdigit)
    IN IF Len(digits) # PHONE_LEN
       THEN [exc |-> Exc("ValueError", "Phone must contain exactly 10 digits.", <<>>),
             val |-> <<>>]
       ELSE [exc |-> NoExc, val |-> digits]

\* (variant: the digits are stored before they are validated)
PhoneSetValueClobber(h, pid, v) ==
    LET n == Phone_normalize_and_validate(v)
    IN IF n.exc.type # ""
       THEN Raise(n.exc, [h EXCEPT !.phones[pid] = SelectSeq(v, isdigit)])
       ELSE Ret(None, [h EXCEPT !.phones[pid] = n.val])

\* Phone.value setter: validate first, assign only on success
Phone_value_set(h, pid, v) ==
    LET n == Phone_normalize_and_validate(v)
    IN IF n.exc.type # "" THEN Raise(n.exc, h)
       ELSE Ret(None, [h EXCEPT !.phones[pid] = n.val])

\* Phone.__init__: normalizes, then Field.__init__ assigns self.value, which
\* goes through the setter; the fresh object has no value until then
Phone_init(h, value) ==
    LET n == Phone_normalize_and_validate(value)
        pid == FreshId(DOMAIN h.phones)
        fresh == [h EXCEPT !.phones =
                    [i \in DOMAIN h.phones \cup {pid} |->
                        IF i = pid THEN <<>> ELSE h.phones[i]]]
    IN IF n.exc.type # "" THEN Raise(n.exc, h)
       ELSE LET s == Phone_value_set(fresh, pid, n.val)
            IN IF Raised(s) THEN Raise(s.exc, h) ELSE Ret(pid, s.h)

\* ------------------------------------------------------------------- Name
\* Name.__init__: the stripped text, or ValueError when nothing is left
Name_init(value) ==
    LET cleaned == strip(value)
    IN IF cleaned = <<>>
       THEN [exc |-> Exc("ValueError", "Name cannot be empty.", <<>>), val |-> <<>>]
       ELSE [exc |-> NoExc, val |-> cleaned]

\* ----------------------------------------------------------------- Record
\* Record.__init__
Record_init(h, name) ==
    LET n == Name_init(name)
        rid == FreshId(DOMAIN h.records)
    IN IF n.exc.type # "" THEN Raise(n.exc, h)
       ELSE Ret(rid, [h EXCEPT !.records =
                [i \in DOMAIN h.records \cup {rid} |->
                    IF i = rid THEN [name |-> n.val, phones |-> <<>>]
                    ELSE h.records[i]]])

\* (variant: the key is compared as given)
FindPhoneRawCompare(h, rid, phone_value) ==
    LET ps == h.records[rid].phones
        hits == {i \in 1..Len(ps) : h.phones[ps[i]] = phone_value}
    IN IF hits = {} THEN None
       ELSE ps[CHOOSE i \in hits : \A j \in hits : i <= j]

\* Record.find_phone: the first Phone whose value is the normalized key
Record_find_phone(h, rid, phone_value) ==
    LET n == Phone_normalize_and_validate(phone_value)
        ps == h.records[rid].phones
        hits == {i \in 1..Len(ps) : h.phones[ps[i]] = n.val}
    IN IF n.exc.type # "" \/ hits = {} THEN None
       ELSE ps[CHOOSE i \in hits : \A j \in hits : i <= j]

\* list.remove(x): drops the first entry that is x
list_remove(lst, x) ==
    LET i == CHOOSE k \in 1..Len(lst) : lst[k] = x /\ \A j \in 1..(k - 1) : lst[j] # x
    IN SubSeq(lst, 1, i - 1) \o SubSeq(lst, i + 1, Len(lst))

\* (variant: a value the record already holds is not added again)
AddPhoneDedup(h, rid, phone) ==
    LET p == Phone_init(h, phone)
    IN IF Raised(p) THEN p
       ELSE IF Record_find_phone(h, rid, phone) # None THEN Ret(None, h)
       ELSE Ret(None, [p.h EXCEPT !.records[rid].phones = Append(@, p.val)])

\* Record.add_phone given a raw string
Record_add_phone(h, rid, phone) ==
    LET p == Phone_init(h, phone)
    IN IF Raised(p) THEN p
       ELSE Ret(None, [p.h EXCEPT !.records[rid].phones = Append(@, p.val)])

\* Record.add_phone given a Phone object
Record_add_phone_obj(h, rid, pid) ==
    Ret(None, [h EXCEPT !.records[rid].phones = Append(@, pid)])

\* (variant: every phone of the matching value is dropped)
RemovePhoneAll(h, rid, phone_value) ==
    LET target == Record_find_phone(h, rid, phone_value)
        Keep(p) == h.phones[p] # h.phones[target]
    IN IF target # None
       THEN Ret(TRUE, [h EXCEPT !.records[rid].phones = SelectSeq(@, Keep)])
       ELSE Ret(FALSE, h)

\* Record.remove_phone
Record_remove_phone(h, rid, phone_value) ==
    LET target == Record_find_phone(h, rid, phone_value)
    IN IF target # None
       THEN Ret(TRUE, [h EXCEPT !.records[rid].phones = list_remove(@, target)])
       ELSE Ret(FALSE, h)

\* (variant: the new value is validated before the old one is looked up)
EditPhoneValidateFirst(h, rid, old_value, new_value) ==
    LET n == Phone_normalize_and_validate(new_value)
        target == Record_find_phone(h, rid, old_value)
    IN IF n.exc.type # "" THEN Raise(n.exc, h)
       ELSE IF target = None THEN Ret(FALSE, h)
       ELSE Ret(TRUE, [h EXCEPT !.phones[target] = n.val])

\* Record.edit_phone
Record_edit_phone(h, rid, old_value, new_value) ==
    LET target == Record_find_phone(h, rid, old_value)
    IN IF target = None THEN Ret(FALSE, h)
       ELSE LET s == Phone_value_set(h, target, new_value)
            IN IF Raised(s) THEN s ELSE Ret(TRUE, s.h)

\* "; ".join(p.value for p in rec.phones)
phones_joined(h, rid) ==
    LET ps == h.records[rid].phones
    IN join(<<";", " ">>, [i \in 1..Len(ps) |-> h.phones[ps[i]]])

\* the one character U+2014 (em dash), written here as "~"
EmDash == <<"~">>

\* Record.__str__
Record_str(h, rid) ==
    LET phones_str == IF phones_joined(h, rid) = <<>> THEN EmDash
                      ELSE phones_joined(h, rid)
    IN <<"C", "o", "n", "t", "a", "c", "t", " ", "n", "a", "m", "e", ":", " ">>
       \o h.records[rid].name
       \o <<",", " ", "p", "h", "o", "n", "e", "s", ":", " ">>
       \o phones_str

\* ------------------------------------------------------------ AddressBook
\* dict.get(key) on the ordered dictionary
dict_get(data, key) ==
    IF \E i \in 1..Len(data) : data[i].key = key
    THEN data[CHOOSE i \in 1..Len(data) : data[i].key = key].rec
    ELSE None

\* (variant: the key set is always moved to the end)
DictSetMoveToEnd(data, key, rec) ==
    LET Other(d) == d.key # key
    IN Append(SelectSeq(data, Other), [key |-> key, rec |-> rec])

\* dict[key] = rec: a present key keeps its place, a new key goes last
dict_set(data, key, rec) ==
    IF \E i \in 1..Len(data) : data[i].key = key
    THEN [i \in 1..Len(data) |->
            IF data[i].key = key THEN [key |-> key, rec |-> rec] ELSE data[i]]
    ELSE Append(data, [key |-> key, rec |-> rec])

\* del dict[key]
dict_del(data, key) ==
    LET Other(d) == d.key # key
    IN SelectSeq(data, Other)

\* AddressBook.add_record
AddressBook_add_record(h, rid) ==
    Ret(None, [h EXCEPT !.data = dict_set(@, h.records[rid].name, rid)])

\* AddressBook.find
AddressBook_find(h, name) == dict_get(h.data, name)

\* (variant: the key is dropped unchecked and True returned)
AddressBookDeleteNoCheck(h, name) ==
    Ret(TRUE, [h EXCEPT !.data = dict_del(@, name)])

\* AddressBook.delete
AddressBook_delete(h, name) ==
    IF dict_get(h.data, name) # None
    THEN Ret(TRUE, [h EXCEPT !.data = dict_del(@, name)])
    ELSE Ret(FALSE, h)

\* ------------------------------------------------------------------ parser
\* parse_input under skip_empty_input: <<command, arg, ...>>
parse_input(user_input) ==
    IF strip(user_input) = <<>> THEN << <<>> >>
    ELSE LET parts == split(strip(user_input))
         IN <<lower(Head(parts))>> \o Tail(parts)

\* --------------------------------------------------------------- messages
\* What a handler returns: a display string (a literal with a computed
\* part) or the exit signal.
Str(fmt, arg) == [kind |-> "str", fmt |-> fmt, arg |-> arg]
EXIT_SIGNAL == [kind |-> "exit", fmt |-> "", arg |-> <<>>]
\* an exception that left the handler
Escaped(e) == [kind |-> "raise", fmt |-> e.type, arg |-> e.arg]

DecimalChars == <<"0", "1", "2", "3", "4", "5", "6", "7", "8", "9">>
Decimal(n) == <<DecimalChars[n + 1]>>

\* a, b, ... = args: ValueError unless args has exactly n entries
unpack(args, n) ==
    IF Len(args) < n
    THEN Exc("ValueError", "not enough values to unpack (expected {}, got {})",
             Decimal(n) \o Decimal(Len(args)))
    ELSE IF Len(args) > n
    THEN Exc("ValueError", "too many values to unpack (expected {})", Decimal(n))
    ELSE NoExc

\* args[0]: IndexError on an empty list
index0(args) ==
    IF Len(args) = 0 THEN Exc("IndexError", "list index out of range", <<>>)
    ELSE NoExc

\* --------------------------------------------------------------- handlers
\* (variant: the new Record is put into the book before its phone is added)
HandleAddRecordFirst(args, h) ==
    IF unpack(args, 2).type # "" THEN Raise(unpack(args, 2), h)
    ELSE LET name == args[1]
             phone == args[2]
             rec == AddressBook_find(h, name)
         IN IF rec = None
            THEN LET r == Record_init(h, name)
                 IN IF Raised(r) THEN r
                    ELSE LET b == AddressBook_add_record(r.h, r.val)
                             a == Record_add_phone(b.h, r.val, phone)
                         IN IF Raised(a) THEN a
                            ELSE Ret(Str("Contact added.", <<>>), a.h)
            ELSE LET a == Record_add_phone(h, rec, phone)
                 IN IF Raised(a) THEN a
                    ELSE Ret(Str("Phone added to existing contact.", <<>>), a.h)

handle_add(args, h) ==
    IF unpack(args, 2).type # "" THEN Raise(unpack(args, 2), h)
    ELSE LET name == args[1]
             phone == args[2]
             rec == AddressBook_find(h, name)
         IN IF rec = None
            THEN LET r == Record_init(h, name)
                 IN IF Raised(r) THEN r
                    ELSE LET a == Record_add_phone(r.h, r.val, phone)
                         IN IF Raised(a) THEN a
                            ELSE Ret(Str("Contact added.", <<>>),
                                     AddressBook_add_record(a.h, r.val).h)
            ELSE LET a == Record_add_phone(h, rec, phone)
                 IN IF Raised(a) THEN a
                    ELSE Ret(Str("Phone added to existing contact.", <<>>), a.h)

handle_change(args, h) ==
    IF unpack(args, 3).type # "" THEN Raise(unpack(args, 3), h)
    ELSE LET name == args[1]
             old_p == args[2]
             new_p == args[3]
             rec == AddressBook_find(h, name)
         IN IF rec = None THEN Raise(Exc("KeyError", "", name), h)
            ELSE LET ok == Record_edit_phone(h, rec, old_p, new_p)
                 IN IF Raised(ok) THEN ok
                    ELSE Ret(Str(IF ok.val THEN "Phone updated."
                                 ELSE "Old phone not found.", <<>>), ok.h)

handle_remove(args, h) ==
    IF unpack(args, 2).type # "" THEN Raise(unpack(args, 2), h)
    ELSE LET name == args[1]
             phone == args[2]
             rec == AddressBook_find(h, name)
         IN IF rec = None THEN Raise(Exc("KeyError", "", name), h)
            ELSE LET ok == Record_remove_phone(h, rec, phone)
                 IN Ret(Str(IF ok.val THEN "Phone removed."
                            ELSE "Phone not found.", <<>>), ok.h)

handle_phone(args, h) ==
    IF index0(args).type # "" THEN Raise(index0(args), h)
    ELSE LET name == args[1]
             rec == AddressBook_find(h, name)
         IN IF rec = None THEN Raise(Exc("KeyError", "", name), h)
            ELSE Ret(Str("{}", IF phones_joined(h, rec) = <<>> THEN EmDash
                               ELSE phones_joined(h, rec)), h)

handle_all(args, h) ==
    IF h.data = <<>> THEN Ret(Str("No contacts.", <<>>), h)
    ELSE Ret(Str("{}", join(<<"\n">>,
                 [i \in 1..Len(h.data) |-> Record_str(h, h.data[i].rec)])), h)

handle_delete(args, h) ==
    IF index0(args).type # "" THEN Raise(index0(args), h)
    ELSE LET name == args[1]
             ok == AddressBook_delete(h, name)
         IN Ret(Str(IF ok.val THEN "Contact deleted."
                    ELSE "Contact not found.", <<>>), ok.h)

handle_help(args, h) == Ret(Str("{help}", <<>>), h)

\* (variant: the farewell is returned as a string)
HandleExitString(args, h) == Ret(Str("Good bye!", <<>>), h)

handle_exit(args, h) == Ret(EXIT_SIGNAL, h)

handle_empty(args, h) == Ret(Str("Enter a command or type 'help'.", <<>>), h)

handle_unknown(command, args, h) ==
    Ret(Str("Unknown command: '{}'\n{help}", command), h)

handle_hello(args, h) == Ret(Str("How can I help you?", <<>>), h)

\* (variant: KeyError is not caught)
InputErrorNoKeyError(o) ==
    IF o.exc.type = "IndexError"
    THEN Ret(Str("Enter the argument for the command", <<>>), o.h)
    ELSE IF o.exc.type = "ValueError"
    THEN Ret(Str(IF o.exc.fmt = "" THEN "Invalid arguments." ELSE o.exc.fmt,
                 o.exc.arg), o.h)
    ELSE IF o.exc.type = "TypeError"
    THEN Ret(Str("Handler received unexpected arguments. Use 'help' to see usage.",
                 <<>>), o.h)
    ELSE o

\* (variant: the name the KeyError carries is not used)
InputErrorNoName(o) ==
    IF o.exc.type = "KeyError"
    THEN Ret(Str("Contact '{}' not found.", <<"<", "?", ">">>), o.h)
    ELSE InputErrorNoKeyError(o)

\* input_error: turns KeyError, IndexError, ValueError and TypeError raised
\* by the handler into display strings; anything else passes through
input_error(o) ==
    IF o.exc.type = "KeyError"
    THEN Ret(Str("Contact '{}' not found.",
                 IF strip(o.exc.arg) = <<>> THEN <<"<", "?", ">">>
                 ELSE strip(o.exc.arg)), o.h)
    ELSE IF o.exc.type = "IndexError"
    THEN Ret(Str("Enter the argument for the command", <<>>), o.h)
    ELSE IF o.exc.type = "ValueError"
    THEN Ret(Str(IF o.exc.fmt = "" THEN "Invalid arguments." ELSE o.exc.fmt,
                 o.exc.arg), o.h)
    ELSE IF o.exc.type = "TypeError"
    THEN Ret(Str("Handler received unexpected arguments. Use 'help' to see usage.",
                 <<>>), o.h)
    ELSE o

\* COMMANDS: the handler registered under a command word
w_hello == <<"h", "e", "l", "l", "o">>
w_add == <<"a", "d", "d">>
w_change == <<"c", "h", "a", "n", "g", "e">>
w_remove == <<"r", "e", "m", "o", "v", "e">>
w_phone == <<"p", "h", "o", "n", "e">>
w_delete == <<"d", "e", "l", "e", "t", "e">>
w_all == <<"a", "l", "l">>
w_help == <<"h", "e", "l", "p">>
w_exit == <<"e", "x", "i", "t">>
w_close == <<"c", "l", "o", "s", "e">>

COMMANDS == {w_hello, w_add, w_change, w_remove, w_phone, w_delete, w_all,
             w_help, w_exit, w_close, <<>>}

\* handler(args=args, book=book) for the handler COMMANDS holds for command
CallHandler(command, args, h) ==
    CASE command = w_hello -> handle_hello(args, h)
      [] command = w_add -> input_error(handle_add(args, h))
      [] command = w_change -> input_error(handle_change(args, h))
      [] command = w_remove -> input_error(handle_remove(args, h))
      [] command = w_phone -> input_error(handle_phone(args, h))
      [] command = w_delete -> input_error(handle_delete(args, h))
      [] command = w_all -> input_error(handle_all(args, h))
      [] command = w_help -> handle_help(args, h)
      [] command \in {w_exit, w_close} -> handle_exit(args, h)
      [] command = <<>> -> handle_empty(args, h)

\* main's loop body once the line is parsed: look the handler up, call it
Dispatch(parsed, h) ==
    LET command == Head(parsed)
        args == Tail(parsed)
    IN IF command \notin COMMANDS THEN handle_unknown(command, args, h)
       ELSE CallHandler(command, args, h)

\* ----------------------------------------------------------------- inputs
John == <<"J", "o", "h", "n">>
Jane == <<"J", "a", "n", "e">>
Names == {John, Jane}

P1 == <<"1", "2", "3", "4", "5", "6", "7", "8", "9", "0">>
P1Dashed == <<"1", "2", "3", "-", "4", "5", "6", "-", "7", "8", "9", "0">>
P2 == <<"5", "5", "5", "5", "5", "5", "5", "5", "5", "5">>
Short == <<"1", "2", "3", "4", "5">>
Extra == <<"x">>
\* words typed in mixed and upper case, and an unknown word
Add_ == <<"A", "d", "d">>
EXIT_ == <<"E", "X", "I", "T">>
foo == <<"f", "o", "o">>

\* a line typed as words separated by single blanks
Typed(words) == join(<<" ">>, words)

\* the lines with the right number of arguments
GoodLines ==
    {Typed(<<w_add, John, P1Dashed>>), Typed(<<w_add, John, P2>>),
     Typed(<<w_add, John, Short>>), Typed(<<Add_, Jane, P2>>),
     Typed(<<w_change, John, P1, P2>>), Typed(<<w_change, John, P1, Short>>),
     Typed(<<w_change, John, Short, P2>>), Typed(<<w_change, John, Short, Short>>),
     Typed(<<w_remove, John, P1>>), Typed(<<w_remove, John, Short>>),
     w_phone \o <<" ", " ">> \o John \o <<" ">>, Typed(<<w_phone, Jane>>),
     Typed(<<w_delete, John>>), Typed(<<w_delete, Jane>>),
     w_hello, w_all, w_help, w_exit, w_close, EXIT_, foo}

\* the lines with too few or too many arguments
ArityLines ==
    {w_add, Typed(<<w_add, John>>), Typed(<<w_add, John, P2, Extra>>),
     Typed(<<w_change, John, P1>>), Typed(<<w_change, John, P1, P2, Extra>>),
     Typed(<<w_remove, John>>), Typed(<<w_remove, John, P1, Extra>>),
     w_phone, Typed(<<w_phone, John, Extra>>),
     w_delete, Typed(<<w_delete, John, Extra>>)}

\* the lines of nothing but whitespace
BlankLines == {<<>>, <<" ", "\t">>}

\* the input lines of a session
Lines == GoodLines \cup ArityLines \cup BlankLines

ParseTable == [l \in Lines |-> parse_input(l)]

\* ------------------------------------------------------------------ state
VARIABLES
    phones,     \* heap of Phone objects: identity -> value
    records,    \* heap of Record objects: identity -> [name, phones]
    data,       \* AddressBook.data: sequence of [key, rec], insertion ordered
    held,       \* references a library client keeps in its own variables
    session,    \* main's loop: "running", "stopped" or "crashed"
    call,       \* the operation performed last and its inputs
    result      \* what that operation gave back

vars == <<phones, records, data, held, session, call, result>>

Heap == [phones |-> phones, records |-> records, data |-> data]

Call(op, rec, phone, s1, s2) ==
    [op |-> op, rec |-> rec, phone |-> phone, s1 |-> s1, s2 |-> s2]

\* Objects nothing refers to any more are gone: what stays is what the book
\* and the client's variables reach.
Collect(h, roots) ==
    LET liveR == {h.data[i].rec : i \in 1..Len(h.data)}
                 \cup {x[2] : x \in {y \in roots : y[1] = "Record"}}
        liveP == UNION {Range(h.records[r].phones) : r \in liveR}
                 \cup {x[2] : x \in {y \in roots : y[1] = "Phone"}}
    IN [phones |-> [i \in DOMAIN h.phones \cap liveP |-> h.phones[i]],
        records |-> [i \in DOMAIN h.records \cap liveR |-> h.records[i]],
        data |-> h.data]

\* the heap stays within the bounds of the model
Fits(h) ==
    /\ DOMAIN h.phones \subseteq PhoneIds
    /\ DOMAIN h.records \subseteq RecIds
    /\ \A r \in DOMAIN h.records : Len(h.records[r].phones) <= MaxPhones

Init ==
    /\ phones = <<>>
    /\ records = <<>>
    /\ data = <<>>
    /\ held = {}
    /\ session = "running"
    /\ call = Call("start", None, None, <<>>, <<>>)
    /\ result = Str("Welcome to the assistant bot (OOP edition)!", <<>>)

\* ------------------------------------------------------------- main's loop
\* One turn: the line is read, parsed and dispatched; the exit signal ends
\* the loop, a string is printed, an exception nobody caught ends the process.
Turn(line) ==
    /\ session = "running"
    /\ LET o == Dispatch(ParseTable[line], Heap)
           g == Collect(o.h, held)
       IN /\ Fits(g)
          /\ phones' = g.phones
          /\ records' = g.records
          /\ data' = g.data
          /\ result' = IF Raised(o) THEN Escaped(o.exc) ELSE o.val
          /\ session' = IF Raised(o) THEN "crashed"
                        ELSE IF o.val = EXIT_SIGNAL THEN "stopped"
                        ELSE "running"
    /\ call' = Call("main", None, None, line, <<>>)
    /\ UNCHANGED held

\* the lines whose command word, parsed, is one of ws
LinesOf(ws) == {l \in Lines : Head(ParseTable[l]) \in ws}
HelloLines == LinesOf({w_hello})
AddLines == LinesOf({w_add})
ChangeLines == LinesOf({w_change})
RemoveLines == LinesOf({w_remove})
PhoneLines == LinesOf({w_phone})
DeleteLines == LinesOf({w_delete})
AllLines == LinesOf({w_all})
HelpLines == LinesOf({w_help})
ExitLines == LinesOf({w_exit, w_close})
EmptyLines == LinesOf({<<>>})
UnknownLines == Lines \ LinesOf(COMMANDS)

Hello == \E l \in HelloLines : Turn(l)
Add == \E l \in AddLines : Turn(l)
Change == \E l \in ChangeLines : Turn(l)
Remove == \E l \in RemoveLines : Turn(l)
ShowPhone == \E l \in PhoneLines : Turn(l)
Delete == \E l \in DeleteLines : Turn(l)
ShowAll == \E l \in AllLines : Turn(l)
Help == \E l \in HelpLines : Turn(l)
Exit == \E l \in ExitLines : Turn(l)
Empty == \E l \in EmptyLines : Turn(l)
Unknown == \E l \in UnknownLines : Turn(l)

\* input() raises EOFError or KeyboardInterrupt: farewell, and the loop ends
EndOfInput ==
    /\ session = "running"
    /\ session' = "stopped"
    /\ call' = Call("eof", None, None, <<>>, <<>>)
    /\ result' = Str("\nGood bye!", <<>>)
    /\ UNCHANGED <<phones, records, data, held>>

Next ==
    \/ Hello
    \/ Add
    \/ Change
    \/ Remove
    \/ ShowPhone
    \/ Delete
    \/ ShowAll
    \/ Help
    \/ Exit
    \/ Empty
    \/ Unknown
    \/ EndOfInput

Spec == Init /\ [][Next]_vars

\* ------------------------------------------------------ a library client
\* A script that drives Record and Phone directly, the way the demo at the
\* end of task4_cli_object_v02.py does, through one Record variable and one
\* Phone variable (held).
P1Spaced == <<"1", "2", "3", " ", "4", "5", "6", " ", "7", "8", "9", "0">>
JaneSpaced == <<" ", "J", "a", "n", "e">>
Blank == <<" ", " ">>
Long == <<"1", "2", "3", "4", "5", "6", "7", "8", "9", "0", "1">>

TheRec == IF \E x \in held : x[1] = "Record"
          THEN (CHOOSE x \in held : x[1] = "Record")[2] ELSE None
ThePhone == IF \E x \in held : x[1] = "Phone"
            THEN (CHOOSE x \in held : x[1] = "Phone")[2] ELSE None

\* the variable of the given kind now refers to the object ref (or to None)
Assign(kind, ref) ==
    {x \in held : x[1] # kind} \cup (IF ref = None THEN {} ELSE {<<kind, ref>>})

Value(kind, v) == [kind |-> kind, fmt |-> v, arg |-> <<>>]
RefValue(kind, ref) == Value("ref", IF ref = None THEN "None" ELSE kind)
BoolValue(b) == Value("bool", IF b THEN "True" ELSE "False")
NoneValue == Value("none", "None")

\* the call is over: its result and the heap it leaves, the client's variables
\* being roots
Done(c, o, res, roots) ==
    LET g == Collect(o.h, roots)
    IN /\ Fits(g)
       /\ phones' = g.phones
       /\ records' = g.records
       /\ data' = g.data
       /\ held' = roots
       /\ call' = c
       /\ result' = IF Raised(o) THEN Escaped(o.exc) ELSE res
       /\ UNCHANGED session

\* p = Phone(raw)
NewPhone ==
    \E raw \in {P1Spaced, Short, Long} :
        LET o == Phone_init(Heap, raw)
        IN Done(Call("Phone", None, None, raw, <<>>), o, RefValue("Phone", o.val),
                IF Raised(o) THEN held ELSE Assign("Phone", o.val))

\* p.value = raw
SetValue ==
    \E raw \in {P2, Short} :
        /\ ThePhone # None
        /\ LET o == Phone_value_set(Heap, ThePhone, raw)
           IN Done(Call("Phone.value", None, ThePhone, raw, <<>>), o, NoneValue, held)

\* r = Record(name)
NewRecord ==
    \E name \in {John, JaneSpaced, Blank} :
        LET o == Record_init(Heap, name)
        IN Done(Call("Record", None, None, name, <<>>), o, RefValue("Record", o.val),
                IF Raised(o) THEN held ELSE Assign("Record", o.val))

\* r.add_phone(raw)
AddPhone ==
    \E raw \in {P1Dashed, P2, Short, Long} :
        /\ TheRec # None
        /\ LET o == Record_add_phone(Heap, TheRec, raw)
           IN Done(Call("add_phone", TheRec, None, raw, <<>>), o, NoneValue, held)

\* r.add_phone(p)
AddPhoneObject ==
    /\ TheRec # None
    /\ ThePhone # None
    /\ LET o == Record_add_phone_obj(Heap, TheRec, ThePhone)
       IN Done(Call("add_phone", TheRec, ThePhone, <<>>, <<>>), o, NoneValue, held)

\* p = r.find_phone(raw)
FindPhone ==
    \E raw \in {P1, P1Spaced, P2, Short, Long} :
        /\ TheRec # None
        /\ LET ref == Record_find_phone(Heap, TheRec, raw)
           IN Done(Call("find_phone", TheRec, None, raw, <<>>), Ret(ref, Heap),
                   RefValue("Phone", ref), Assign("Phone", ref))

\* r.remove_phone(raw)
RemovePhone ==
    \E raw \in {P1Spaced, P2, Short} :
        /\ TheRec # None
        /\ LET o == Record_remove_phone(Heap, TheRec, raw)
           IN Done(Call("remove_phone", TheRec, None, raw, <<>>), o,
                   BoolValue(o.val), held)

\* r.edit_phone(old, new)
EditPhone ==
    \E old \in {P1Spaced, Short}, new \in {P2, Short} :
        /\ TheRec # None
        /\ LET o == Record_edit_phone(Heap, TheRec, old, new)
           IN Done(Call("edit_phone", TheRec, None, old, new), o,
                   BoolValue(o.val), held)

NextLib ==
    \/ NewPhone
    \/ SetValue
    \/ NewRecord
    \/ AddPhone
    \/ AddPhoneObject
    \/ FindPhone
    \/ RemovePhone
    \/ EditPhone

SpecLib == Init /\ [][NextLib]_vars

\* ------------------------------------------------- a client of the book
\* A script that also fills and empties the AddressBook itself, as the demo
\* does with book.add_record, book.find and book.delete, next to the add,
\* delete and all commands working on the same book.

\* book.add_record(r)
AddRecord ==
    /\ TheRec # None
    /\ LET o == AddressBook_add_record(Heap, TheRec)
       IN Done(Call("add_record", TheRec, None, records[TheRec].name, <<>>), o,
               NoneValue, held)

\* r = book.find(name)
FindRecord ==
    \E name \in Names :
        LET ref == AddressBook_find(Heap, name)
        IN Done(Call("find", None, None, name, <<>>), Ret(ref, Heap),
                RefValue("Record", ref), Assign("Record", ref))

\* book.delete(name)
DeleteRecord ==
    \E name \in Names :
        LET o == AddressBook_delete(Heap, name)
        IN Done(Call("delete", None, None, name, <<>>), o, BoolValue(o.val), held)

\* the lines the script hands to the command handlers
BookLines ==
    {Typed(<<w_add, John, P2>>), Typed(<<Add_, Jane, P2>>),
     Typed(<<w_delete, John>>), Typed(<<w_delete, Jane>>), w_all}

AddCommand == \E l \in AddLines \cap BookLines : Turn(l)
DeleteCommand == \E l \in DeleteLines \cap BookLines : Turn(l)
AllCommand == \E l \in AllLines \cap BookLines : Turn(l)

NextBook ==
    \/ NewRecord
    \/ AddRecord
    \/ FindRecord
    \/ DeleteRecord
    \/ AddCommand
    \/ DeleteCommand
    \/ AllCommand

SpecBook == Init /\ [][NextBook]_vars

\* =================================================================== claims
\* the digits of a string, in order
DigitsOf(raw) ==
    LET IsDigitChar(ch) == ch \in {"0", "1", "2", "3", "4", "5", "6", "7", "8", "9"}
    IN SelectSeq(raw, IsDigitChar)

TenDigits(v) == Len(v) = 10 /\ DigitsOf(v) = v

\* the phone values of a Record, in order
ValuesIn(h, rid) ==
    [i \in 1..Len(h.records[rid].phones) |-> h.phones[h.records[rid].phones[i]]]

KeysOf(h) == [i \in 1..Len(h.data) |-> h.data[i].key]
HasKey(h, name) == \E i \in 1..Len(h.data) : h.data[i].key = name
RecOf(h, name) == h.data[CHOOSE i \in 1..Len(h.data) : h.data[i].key = name].rec

\* the positions of a Record's phones whose value is the digits of raw
Hits(h, rid, raw) ==
    {i \in 1..Len(h.records[rid].phones) :
        Len(DigitsOf(raw)) = 10 /\ ValuesIn(h, rid)[i] = DigitsOf(raw)}
First(S) == CHOOSE i \in S : \A j \in S : i <= j

RemoveAt(seq, i) ==
    [j \in 1..(Len(seq) - 1) |-> IF j < i THEN seq[j] ELSE seq[j + 1]]

\* the Record under key name is the same object holding the same phones
SameRecord(h1, h2, name) ==
    /\ HasKey(h2, name)
    /\ RecOf(h2, name) = RecOf(h1, name)
    /\ h2.records[RecOf(h1, name)] = h1.records[RecOf(h1, name)]
    /\ ValuesIn(h2, RecOf(h1, name)) = ValuesIn(h1, RecOf(h1, name))

\* the turn just taken read a line whose command word is w
IsCmd(c, w) == c.op = "main" /\ Head(ParseTable[c.s1]) = w
ArgsOf(c) == Tail(ParseTable[c.s1])

ValidationMessage == Str("Phone must contain exactly 10 digits.", <<>>)
NotFoundMessage(name) == Str("Contact '{}' not found.", name)

\* C1: every live Phone object, and so every Phone a Record holds, has a value
\* of exactly 10 digit characters, after any sequence of commands (each of
\* which constructs Phones, replaces values, adds, edits or removes), failed
\* ones included.
C1_PhonesAreTenDigits ==
    /\ \A r \in DOMAIN records :
          \A i \in 1..Len(records[r].phones) : records[r].phones[i] \in DOMAIN phones
    /\ \A p \in DOMAIN phones : TenDigits(phones[p])

\* a failed add has just left a book whose Record holds phones
C1_Witness ==
    /\ IsCmd(call, w_add)
    /\ result = ValidationMessage
    /\ \E r \in DOMAIN records : records[r].phones # <<>>

\* C2: whatever line is dispatched in whatever state, the loop gets a display
\* string or the exit signal: no exception leaves a handler and the process
\* is never ended by one.
C2_NoErrorEscapes ==
    /\ session # "crashed"
    /\ result.kind \in {"str", "exit"}

\* a handler has just raised KeyError and the user got a message for it
C2_Witness ==
    /\ call.op = "main"
    /\ result = NotFoundMessage(John)
    /\ session = "running"

\* C3: add <name> <phone> with a phone of 10 digits creates the Record with
\* exactly that phone ("Contact added.") or appends it to the existing
\* Record's phones ("Phone added to existing contact."), and leaves every
\* other Record as it was.
C3_AddStep ==
    (IsCmd(call', w_add) /\ Len(ArgsOf(call')) = 2
        /\ Len(DigitsOf(ArgsOf(call')[2])) = 10)
    => LET name == ArgsOf(call')[1]
           v == DigitsOf(ArgsOf(call')[2])
       IN /\ HasKey(Heap', name)
          /\ IF HasKey(Heap, name)
             THEN /\ result' = Str("Phone added to existing contact.", <<>>)
                  /\ RecOf(Heap', name) = RecOf(Heap, name)
                  /\ ValuesIn(Heap', RecOf(Heap', name))
                        = Append(ValuesIn(Heap, RecOf(Heap, name)), v)
                  /\ KeysOf(Heap') = KeysOf(Heap)
             ELSE /\ result' = Str("Contact added.", <<>>)
                  /\ ValuesIn(Heap', RecOf(Heap', name)) = <<v>>
                  /\ KeysOf(Heap') = Append(KeysOf(Heap), name)
          /\ \A i \in 1..Len(data) :
                data[i].key # name => SameRecord(Heap, Heap', data[i].key)

C3_AddCreatesOrAppends == [][C3_AddStep]_vars

\* a phone has just been added to an existing contact, next to another one
C3_Witness ==
    /\ IsCmd(call, w_add)
    /\ result = Str("Phone added to existing contact.", <<>>)
    /\ Len(data) = 2

\* C4 (as claimed): a wrong number of arguments to add, change, remove, phone
\* or delete gives "Enter the argument for the command" and leaves the book
\* unchanged.
Arity(w) == IF w = w_change THEN 3 ELSE IF w \in {w_add, w_remove} THEN 2 ELSE 1

C4_ArityStep ==
    (call'.op = "main"
        /\ Head(ParseTable[call'.s1]) \in {w_add, w_change, w_remove, w_phone, w_delete}
        /\ Len(ArgsOf(call')) # Arity(Head(ParseTable[call'.s1])))
    => /\ result' = Str("Enter the argument for the command", <<>>)
       /\ Heap' = Heap

C4_WrongArityIsArgumentError == [][C4_ArityStep]_vars

\* C5: change <name> <old> <new> where old matches a phone of the Record and
\* new is not 10 digits: edit_phone raises ValueError, the user gets the
\* validation message, and no phone, Record or book entry has changed.
C5_EditStep ==
    (IsCmd(call', w_change) /\ Len(ArgsOf(call')) = 3
        /\ HasKey(Heap, ArgsOf(call')[1])
        /\ Hits(Heap, RecOf(Heap, ArgsOf(call')[1]), ArgsOf(call')[2]) # {}
        /\ Len(DigitsOf(ArgsOf(call')[3])) # 10)
    => LET rid == RecOf(Heap, ArgsOf(call')[1])
           o == Record_edit_phone(Heap, rid, ArgsOf(call')[2], ArgsOf(call')[3])
       IN /\ o.exc.type = "ValueError"
          /\ o.h = Heap
          /\ result' = ValidationMessage
          /\ Heap' = Heap

C5_InvalidNewLeavesPhone == [][C5_EditStep]_vars

\* a change to an invalid new value has just been refused on a present phone
C5_Witness ==
    /\ IsCmd(call, w_change)
    /\ ArgsOf(call) = <<John, P1, Short>>
    /\ result = ValidationMessage
    /\ HasKey(Heap, John)
    /\ Hits(Heap, RecOf(Heap, John), P1) # {}

\* C6: change <name> <old> <new> where no phone of the Record equals the
\* digits of old (old not being 10 digits included): edit_phone returns False
\* without raising, whatever new is, the user gets "Old phone not found.",
\* and nothing has changed.
C6_EditStep ==
    (IsCmd(call', w_change) /\ Len(ArgsOf(call')) = 3
        /\ HasKey(Heap, ArgsOf(call')[1])
        /\ Hits(Heap, RecOf(Heap, ArgsOf(call')[1]), ArgsOf(call')[2]) = {})
    => LET rid == RecOf(Heap, ArgsOf(call')[1])
           o == Record_edit_phone(Heap, rid, ArgsOf(call')[2], ArgsOf(call')[3])
       IN /\ o.exc.type = ""
          /\ o.val = FALSE
          /\ o.h = Heap
          /\ result' = Str("Old phone not found.", <<>>)
          /\ Heap' = Heap

C6_AbsentOldIsFalse == [][C6_EditStep]_vars

\* an absent 10-digit old phone with an invalid new one was reported not found
C6_Witness ==
    /\ IsCmd(call, w_change)
    /\ ArgsOf(call) = <<John, P1, Short>>
    /\ result = Str("Old phone not found.", <<>>)
    /\ HasKey(Heap, John)

\* C7: change, remove and phone on a name that is no key of the book answer
\* "Contact '<name>' not found." with that name and change nothing.
C7_NotFoundStep ==
    (/\ \/ IsCmd(call', w_change) /\ Len(ArgsOf(call')) = 3
        \/ IsCmd(call', w_remove) /\ Len(ArgsOf(call')) = 2
        \/ IsCmd(call', w_phone) /\ Len(ArgsOf(call')) >= 1
     /\ ~HasKey(Heap, ArgsOf(call')[1]))
    => /\ result' = NotFoundMessage(ArgsOf(call')[1])
       /\ Heap' = Heap

C7_AbsentNameNotFound == [][C7_NotFoundStep]_vars

\* remove has just been refused for a name the book, not empty, does not hold
C7_Witness ==
    /\ IsCmd(call, w_remove)
    /\ result = NotFoundMessage(John)
    /\ data # <<>>
    /\ ~HasKey(Heap, John)

\* C8: find_phone returns the first Phone, in insertion order, whose value is
\* the digits of the key, or None when the key is not 10 digits or matches
\* nothing; it never raises and leaves the Record as it was.  After
\* add_phone, every key with the same 10 digits finds a Phone of that value.
SearchKeys == {P1, P1Spaced, P1Dashed, P2, Short, Long}

C8_FindStep ==
    /\ call'.op = "find_phone"
       => LET r == call'.rec
              hits == Hits(Heap, r, call'.s1)
          IN /\ IF hits # {}
                THEN /\ result' = Value("ref", "Phone")
                     /\ ThePhone' = records[r].phones[First(hits)]
                     /\ phones'[ThePhone'] = DigitsOf(call'.s1)
                ELSE /\ result' = Value("ref", "None")
                     /\ ThePhone' = None
             /\ records'[r] = records[r]
             /\ ValuesIn(Heap', r) = ValuesIn(Heap, r)
    /\ (call'.op = "add_phone" /\ result'.kind = "none")
       => LET r == call'.rec
              v == IF call'.phone = None THEN DigitsOf(call'.s1)
                   ELSE phones[call'.phone]
          IN \A k \in SearchKeys :
                DigitsOf(k) = v
                => /\ Record_find_phone(Heap', r, k) # None
                   /\ phones'[Record_find_phone(Heap', r, k)] = v

C8_FindPhoneFirstMatch == [][C8_FindStep]_vars

\* a key typed with blanks has just found the first of two phones of its digits
C8_Witness ==
    /\ call.op = "find_phone"
    /\ call.s1 = P1Spaced
    /\ result = Value("ref", "Phone")
    /\ Len(records[call.rec].phones) = 2
    /\ records[call.rec].phones[1] # records[call.rec].phones[2]
    /\ ValuesIn(Heap, call.rec) = <<P1, P1>>
    /\ ThePhone = records[call.rec].phones[1]

\* C9: remove_phone drops exactly the first phone whose value is the digits
\* of the key, keeps the others (later ones of the same value too) in order
\* and returns True; with no match it returns False and the phones stay.
C9_RemoveStep ==
    call'.op = "remove_phone"
    => LET r == call'.rec
           hits == Hits(Heap, r, call'.s1)
       IN IF hits # {}
          THEN /\ result' = Value("bool", "True")
               /\ records'[r].phones = RemoveAt(records[r].phones, First(hits))
               /\ ValuesIn(Heap', r) = RemoveAt(ValuesIn(Heap, r), First(hits))
               /\ Len(records'[r].phones) = Len(records[r].phones) - 1
          ELSE /\ result' = Value("bool", "False")
               /\ records'[r] = records[r]
               /\ ValuesIn(Heap', r) = ValuesIn(Heap, r)

C9_RemoveFirstMatchOnly == [][C9_RemoveStep]_vars

\* a phone has just been removed and a later one of the same value is left
C9_Witness ==
    /\ call.op = "remove_phone"
    /\ result = Value("bool", "True")
    /\ records[call.rec].phones # <<>>
    /\ ValuesIn(Heap, call.rec)[1] = DigitsOf(call.s1)

\* C10: delete <name> on an absent name answers "Contact not found." and
\* changes nothing; on a present name it answers "Contact deleted.", the name
\* is no key any more, find gives None, a phone command for it reports not
\* found, and the other Records stay, in order and unchanged.
C10_DeleteStep ==
    (IsCmd(call', w_delete) /\ Len(ArgsOf(call')) = 1)
    => LET name == ArgsOf(call')[1]
           Other(k) == k # name
       IN IF ~HasKey(Heap, name)
          THEN /\ result' = Str("Contact not found.", <<>>)
               /\ Heap' = Heap
          ELSE /\ result' = Str("Contact deleted.", <<>>)
               /\ ~HasKey(Heap', name)
               /\ AddressBook_find(Heap', name) = None
               /\ Dispatch(<<w_phone, name>>, Heap').val = NotFoundMessage(name)
               /\ KeysOf(Heap') = SelectSeq(KeysOf(Heap), Other)
               /\ \A i \in 1..Len(data) :
                     data[i].key # name => SameRecord(Heap, Heap', data[i].key)

C10_DeleteRemovesOnlyThatName == [][C10_DeleteStep]_vars

\* a contact has just been deleted and the other one is still in the book
C10_Witness ==
    /\ IsCmd(call, w_delete)
    /\ result = Str("Contact deleted.", <<>>)
    /\ Len(data) = 1
    /\ records[data[1].rec].phones # <<>>

\* the part of s before the first ch
RECURSIVE UpTo(_, _)
UpTo(s, ch) ==
    IF s = <<>> \/ Head(s) = ch THEN <<>> ELSE <<Head(s)>> \o UpTo(Tail(s), ch)

\* the pieces of s between the occurrences of ch
RECURSIVE SplitOn(_, _)
SplitOn(s, ch) ==
    LET piece == UpTo(s, ch)
    IN IF Len(piece) = Len(s) THEN <<piece>>
       ELSE <<piece>> \o SplitOn(SubSeq(s, Len(piece) + 2, Len(s)), ch)

\* the name a rendered Record shows: what stands between "Contact name: "
\* and the comma
NameShown(line) == UpTo(SubSeq(line, 15, Len(line)), ",")

\* C11: the book enumerates the present names in the order in which they
\* were inserted. Step by step: no key occurs twice; the keys present before
\* and after a step keep their relative order and every key the step inserts
\* comes after them; add_record on a present key leaves the key sequence as it
\* was and puts the given Record under the key; a deletion (book.delete or the
\* delete command) removes the one key and nothing else moves; and the all
\* command shows one Record per line, the names being the keys in that order.
C11_OrderStep ==
    LET old == KeysOf(Heap)
        new == KeysOf(Heap')
        InOld(k) == \E i \in 1..Len(old) : old[i] = k
        InNew(k) == \E i \in 1..Len(new) : new[i] = k
    IN /\ \A i, j \in 1..Len(new) : new[i] = new[j] => i = j
       /\ SelectSeq(new, InOld) = SelectSeq(old, InNew)
       /\ \A i, j \in 1..Len(new) : (i < j /\ ~InOld(new[i])) => ~InOld(new[j])
       /\ \A i \in 1..Len(new) : records'[data'[i].rec].name = new[i]
       /\ (call'.op = "add_record" /\ InOld(call'.s1))
          => (new = old /\ RecOf(Heap', call'.s1) = call'.rec)
       /\ (call'.op = "add_record" /\ ~InOld(call'.s1))
          => new = Append(old, call'.s1)
       /\ (call'.op = "delete" \/ (IsCmd(call', w_delete) /\ ArgsOf(call') # <<>>))
          => LET name == IF call'.op = "delete" THEN call'.s1 ELSE ArgsOf(call')[1]
                 Other(k) == k # name
             IN new = SelectSeq(old, Other)
       /\ IsCmd(call', w_all)
          => /\ new = old
             /\ IF old = <<>> THEN result' = Str("No contacts.", <<>>)
                ELSE LET shown == SplitOn(result'.arg, "\n")
                     IN /\ result'.kind = "str"
                        /\ [i \in 1..Len(shown) |-> NameShown(shown[i])] = old

Places(h) ==
    UNION {{<<r, i>> : i \in 1..Len(h.records[r].phones)} : r \in DOMAIN h.records}

\* C12: each Record exclusively owns its Phones: no Phone object is held at
\* two places, be it by two Records or at two positions of one Record, after
\* any sequence of add_phone (with a string or with a Phone), edit_phone,
\* remove_phone and the other calls of the client.
C12_ExclusiveOwnership ==
    \A x, y \in Places(Heap) :
        records[x[1]].phones[x[2]] = records[y[1]].phones[y[2]] => x = y

\* C12, its consequence: an edit_phone that succeeds changes the entry it
\* found, the first one with the old value, and no other entry of the Record.
C12_EditStep ==
    (call'.op = "edit_phone" /\ result' = BoolValue(TRUE))
    => LET r == call'.rec
           at == First(Hits(Heap, r, call'.s1))
       IN \A i \in 1..Len(records[r].phones) :
             i # at => ValuesIn(Heap', r)[i] = ValuesIn(Heap, r)[i]

C12_EditChangesOneEntry == [][C12_EditStep]_vars

\* the line's first word is exit or close, in whatever letter case
IsExitLine(line) == lower(first_word(lstrip(line))) \in {w_exit, w_close}

\* C13: the session leaves the running state only on exit or close (in any
\* letter case) or on end of input. Every step starts in a running session, so
\* once the loop has stopped no line is dispatched and the book stays as it is;
\* an exit or close line gives the exit signal, which is no string, stops the
\* loop and leaves the book alone; end of input stops the loop; every other
\* line, an error message being its answer or not, gives a string and leaves
\* the session running.
C13_SessionStep ==
    /\ session = "running"
    /\ call'.op \in {"main", "eof"}
    /\ (call'.op = "main" /\ IsExitLine(call'.s1))
       => /\ result' = EXIT_SIGNAL
          /\ result'.kind # "str"
          /\ session' = "stopped"
          /\ Heap' = Heap
    /\ (call'.op = "main" /\ ~IsExitLine(call'.s1))
       => /\ result'.kind = "str"
          /\ session' = "running"
    /\ call'.op = "eof"
       => /\ session' = "stopped"
          /\ Heap' = Heap

C13_OnlyExitOrEndOfInputStops == [][C13_SessionStep]_vars

\* EXIT typed in capitals has stopped a session that had filled the book
C13_Witness ==
    /\ session = "stopped"
    /\ call.op = "main"
    /\ call.s1 = EXIT_
    /\ result = EXIT_SIGNAL
    /\ data # <<>>

\* C14: add <name> <phone> with a phone that has not exactly 10 digits
\* answers with the validation message and leaves the book exactly as it was:
\* an absent name stays absent (no Record, and so none with an empty phone
\* list, is put under it), a present name keeps its Record and its phones, and
\* no object is created or changed.
C14_AddStep ==
    (/\ IsCmd(call', w_add)
     /\ Len(ArgsOf(call')) = 2
     /\ Len(DigitsOf(ArgsOf(call')[2])) # 10)
    => LET name == ArgsOf(call')[1]
       IN /\ result' = ValidationMessage
          /\ Heap' = Heap
          /\ HasKey(Heap', name) = HasKey(Heap, name)
          /\ HasKey(Heap, name) => SameRecord(Heap, Heap', name)

C14_InvalidAddLeavesBook == [][C14_AddStep]_vars

\* add with a short phone has just been refused for a name that is absent,
\* another contact being in the book
C14_Witness ==
    /\ IsCmd(call, w_add)
    /\ Len(ArgsOf(call)) = 2
    /\ Len(DigitsOf(ArgsOf(call)[2])) # 10
    /\ result = ValidationMessage
    /\ ~HasKey(Heap, ArgsOf(call)[1])
    /\ data # <<>>
====
